---------------------------- MODULE Spec2Model ----------------------------
(***************************************************************************)
(* Model of the axon_cluster peer request/response subsystem:              *)
(*   - run_subordinate            (src/src/main.rs)                        *)
(*   - run_leader                 (src/src/main.rs)                        *)
(*   - run_leader_with_http       (src/src/main.rs)                        *)
(*   - handle_ask                 (src/src/http_server.rs)                 *)
(*   - InferenceCodec             (src/src/protocol.rs)                    *)
(* The libp2p swarm (mDNS, request_response) and the Ollama backend are    *)
(* collaborators: they deliver events and results drawn from small sets.   *)
(***************************************************************************)
EXTENDS Integers, Sequences, FiniteSets, TLC

---------------------------------------------------------------------------
(* Bounds of the model *)

\* number of distinct PeerIds the discovery collaborator can report
NumPeers == 2
\* longest peer list carried by one mdns Discovered / Expired event
MaxBatch == 2
\* inbound InferenceRequests a Leader serves before the model stops
MaxServed == 2
\* handle_ask invocations (HTTP /api/ask calls)
MaxAsks == 2
\* OutboundRequestIds a Response / OutboundFailure event may carry
MaxReqId == 2
\* handle_ask invocations when the command queue is filled: two more than its room
QueueAsks == 34
\* Response events whose translation into a Result is followed
MaxTranslated == 3

(* Program constants *)

\* mpsc::channel::<SwarmCommand>(32)
CommandCapacity == 32

---------------------------------------------------------------------------
(* Values *)

None == [tag |-> "None"]
Some(x) == [tag |-> "Some", val |-> x]
Ok(x) == [tag |-> "Ok", val |-> x]
Err(e) == [tag |-> "Err", val |-> e]

Peers == 1..NumPeers
ReqIds == 1..MaxReqId
AskIds == 1..MaxAsks
QueueIds == 1..QueueAsks

\* lists of peers of length 0..MaxBatch (a peer may be listed twice, once
\* per address)
Batches == UNION {[1..n -> Peers] : n \in 0..MaxBatch}

Prompts == {"2+2?"}
Models == {"llama3"}
Texts == {"", "4"}
ErrorTexts == {"connection refused"}

\* cli: --model, the Leader's configured default
DefaultModel == "qwen:0.5b"

\* InferenceRequest {prompt, model}
InferenceRequest(p, m) == [prompt |-> p, model |-> m]
InboundRequests ==
    {InferenceRequest(p, m) : p \in Prompts, m \in {None} \cup {Some(x) : x \in Models}}

\* InferenceResponse {response, success, error}
InferenceResponse(t, s, e) == [response |-> t, success |-> s, error |-> e]
\* any response a remote peer may put on the wire
WireResponses ==
    {InferenceResponse(t, s, e) :
        t \in Texts, s \in BOOLEAN, e \in {None} \cup {Some(x) : x \in ErrorTexts}}

\* request_response::OutboundFailure variants
OutboundFailures == {"Timeout", "DialFailure", "ConnectionClosed", "UnsupportedProtocols"}

\* the elements of a list
Range(s) == {s[i] : i \in 1..Len(s)}

---------------------------------------------------------------------------
VARIABLES
    mode,               \* cli::Mode of this process: "serve", "web" or "ask"
    mdns_discovered,    \* peers mdns has reported Discovered and not yet Expired
    mdns_ever,          \* whether mdns has reported any peer so far
    outbound,           \* request_response.send_request calls: <<[peer, request, id]>>
    \* run_subordinate
    prompt,             \* the prompt argument
    pending_request,    \* Option<OutboundRequestId>
    discovered_leaders, \* HashMap<PeerId, bool>
    sub_exit,           \* "running", or the Result run_subordinate returned
    sub_printed,        \* what the Response arm printed
    first_reported,     \* the first peer any Discovered event ever listed
    sub_event,          \* the event the loop of run_subordinate matched last
    \* run_leader and run_leader_with_http
    model,              \* the default model name the Leader was started with
    leader_pc,          \* "select": awaiting an event; "generating": inside generate().await
    cur_request,        \* the inbound request being served: Option<[request, channel]>
    n_requests,         \* inbound Request events taken so far (= generate calls made)
    n_replies,          \* send_response calls made so far
    ollama_call,        \* arguments of the latest generate call: Option<[prompt, model]>
    ollama_result,      \* what the latest generate call returned
    last_reply,         \* the latest send_response call: Option<[channel, response, delivered]>
    \* run_leader_with_http and handle_ask
    command_rx,         \* the mpsc command queue: <<[prompt, responder]>>
    pending_requests,   \* HashMap<OutboundRequestId, oneshot::Sender>
    response_dropped,   \* whether the Response arm has met a request_id with no entry
    responder_sent,     \* per oneshot channel, the results sent on its Sender
    ask_pc,             \* per handle_ask call: "idle", "waiting" or "done"
    http_reply,         \* per handle_ask call: what it returned to the HTTP client
    http_server,        \* the spawned HTTP server task: [state |-> "running"], or, once
                        \* it has ended, "exited" with the requests the loop had taken
    \* InferenceCodec, on one substream
    codec_msg,          \* the message handed to write_request / write_response
    codec_pc,           \* where its writer is: "idle", "write_prefix", "write_payload",
                        \* "close", "closed" or "failed"
    wire,               \* the bytes the writer has put on the substream
    received,           \* the bytes the reading end gets before end of stream
    codec_read,         \* what read_request / read_response returned
    \* the translation of a Response into a Result, on its own
    translated          \* <<[response, result]>>: the responses translated so far

leaderVars == <<model, leader_pc, cur_request, n_requests, n_replies, ollama_call,
                ollama_result, last_reply>>
reactorHttpVars == <<command_rx, pending_requests, response_dropped, responder_sent>>
handlerVars == <<ask_pc, http_reply>>
httpVars == <<reactorHttpVars, handlerVars>>
subVars == <<prompt, pending_request, discovered_leaders, sub_exit, sub_printed,
             first_reported, sub_event>>
swarmVars == <<mdns_discovered, mdns_ever, outbound>>
codecVars == <<codec_msg, codec_pc, wire, received, codec_read>>
vars == <<mode, swarmVars, subVars, leaderVars, httpVars, codecVars, translated,
          http_server>>

Running == [tag |-> "Running"]

\* the HTTP server task while axum::serve accepts connections
ServerRunning == [state |-> "running"]

---------------------------------------------------------------------------
(* HashMap<PeerId, bool> as a function on the set of its keys *)

contains_key(map, k) == k \in DOMAIN map
insert(map, k, v) == [x \in (DOMAIN map) \cup {k} |-> IF x = k THEN v ELSE map[x]]
remove(map, k) == [x \in (DOMAIN map) \ {k} |-> map[x]]
EmptyMap == [x \in {} |-> FALSE]

---------------------------------------------------------------------------
(* The swarm collaborator *)

\* request_response.send_request on the log `out` of earlier calls: allocates
\* the next OutboundRequestId and queues the request for `peer`
next_request_id(out) == Len(out) + 1
send_request(out, peer, request) ==
    Append(out, [peer |-> peer, request |-> request, id |-> next_request_id(out)])

\* mdns bookkeeping of the peers currently reported
MdnsDiscovered(peers) ==
    /\ mdns_discovered' = mdns_discovered \cup Range(peers)
    /\ mdns_ever' = (mdns_ever \/ peers # <<>>)
MdnsExpired(peers) ==
    /\ mdns_discovered' = mdns_discovered \ Range(peers)
    /\ UNCHANGED mdns_ever

---------------------------------------------------------------------------
(* run_subordinate *)

\* SubDiscoveredLoop without the `pending_request.is_none()` test
RECURSIVE SubDiscoveredLoop_NoPendingTest(_, _, _)
SubDiscoveredLoop_NoPendingTest(peers, i, st) ==
    IF i > Len(peers) THEN st
    ELSE LET peer_id == peers[i] IN
         IF ~contains_key(st.leaders, peer_id)
         THEN SubDiscoveredLoop_NoPendingTest(peers, i + 1,
                  [leaders |-> insert(st.leaders, peer_id, FALSE),
                   pending |-> Some(next_request_id(st.out)),
                   out |-> send_request(st.out, peer_id, InferenceRequest(prompt, None))])
         ELSE SubDiscoveredLoop_NoPendingTest(peers, i + 1, st)

\* the `for (peer_id, _addr) in peers` loop of the Discovered arm, run over
\* the list from element i on; st = [leaders, pending, out]
RECURSIVE SubDiscoveredLoop(_, _, _)
SubDiscoveredLoop(peers, i, st) ==
    IF i > Len(peers) THEN st
    ELSE LET peer_id == peers[i] IN
         IF ~contains_key(st.leaders, peer_id)
         THEN LET leaders1 == insert(st.leaders, peer_id, FALSE) IN
              IF st.pending = None
              THEN LET request == InferenceRequest(prompt, None)
                       req_id == next_request_id(st.out)
                   IN SubDiscoveredLoop(peers, i + 1,
                        [leaders |-> leaders1,
                         pending |-> Some(req_id),
                         out |-> send_request(st.out, peer_id, request)])
              ELSE SubDiscoveredLoop(peers, i + 1,
                        [leaders |-> leaders1, pending |-> st.pending, out |-> st.out])
         ELSE SubDiscoveredLoop(peers, i + 1, st)

\* SubExpiredLoop with `discovered_leaders.clear()` in place of `remove(&peer_id)`
SubExpiredLoop_Clear(peers, i, leaders) ==
    IF i > Len(peers) THEN leaders ELSE EmptyMap

\* the `for (peer_id, _addr) in peers` loop of the Expired arm
RECURSIVE SubExpiredLoop(_, _, _)
SubExpiredLoop(peers, i, leaders) ==
    IF i > Len(peers) THEN leaders
    ELSE SubExpiredLoop(peers, i + 1, remove(leaders, peers[i]))

SubNewListenAddr ==
    /\ mode = "ask" /\ sub_exit = Running
    /\ sub_event' = [kind |-> "NewListenAddr"]
    /\ UNCHANGED <<mode, http_server, translated, codecVars, swarmVars, prompt, pending_request, discovered_leaders,
                   sub_exit, sub_printed, first_reported, leaderVars, httpVars>>

SubDiscovered(peers) ==
    /\ mode = "ask" /\ sub_exit = Running
    /\ LET st == SubDiscoveredLoop(peers, 1,
                    [leaders |-> discovered_leaders, pending |-> pending_request,
                     out |-> outbound])
       IN /\ discovered_leaders' = st.leaders
          /\ pending_request' = st.pending
          /\ outbound' = st.out
    /\ MdnsDiscovered(peers)
    /\ first_reported' = IF first_reported = None /\ Len(peers) > 0
                         THEN Some(peers[1]) ELSE first_reported
    /\ sub_event' = [kind |-> "Discovered", peers |-> peers]
    /\ UNCHANGED <<mode, http_server, translated, codecVars, prompt, sub_exit, sub_printed, leaderVars, httpVars>>

\* what the Response arm prints, and where
SubPrint(response) ==
    IF response.success
    THEN [stream |-> "stdout", text |-> response.response]
    ELSE [stream |-> "stderr",
          text |-> IF response.error = None THEN "" ELSE response.error.val]

\* SubResponseExit returning an error when the Leader reported a failure
SubResponseExit_ErrOnFailure(response) ==
    IF response.success THEN Ok("unit") ELSE Err(<<"Leader error">>)

\* the value run_subordinate returns from the Response arm
SubResponseExit(response) == Ok("unit")

\* the swarm yields a Response only for a request this process sent
SubResponse(response) ==
    /\ mode = "ask" /\ sub_exit = Running
    /\ outbound # <<>>
    /\ sub_printed' = Some(SubPrint(response))
    /\ sub_exit' = SubResponseExit(response)
    /\ sub_event' = [kind |-> "Response", response |-> response]
    /\ UNCHANGED <<mode, http_server, translated, codecVars, swarmVars, prompt, pending_request, discovered_leaders,
                   first_reported, leaderVars, httpVars>>

\* SubFailureExit printing the error and returning Ok(())
SubFailureExit_Swallowed(error) == Ok("unit")

\* the value run_subordinate returns from the OutboundFailure arm
SubFailureExit(error) == Err(<<"Request failed: ", error>>)

\* the swarm yields an OutboundFailure only for a request this process sent
SubOutboundFailure(error) ==
    /\ mode = "ask" /\ sub_exit = Running
    /\ outbound # <<>>
    /\ sub_exit' = SubFailureExit(error)
    /\ sub_event' = [kind |-> "OutboundFailure", error |-> error]
    /\ UNCHANGED <<mode, http_server, translated, codecVars, swarmVars, prompt, pending_request, discovered_leaders,
                   sub_printed, first_reported, leaderVars, httpVars>>

\* SubExpired also cancelling the outstanding request
SubExpired_Cancel(peers) ==
    /\ mode = "ask" /\ sub_exit = Running
    /\ discovered_leaders' = SubExpiredLoop(peers, 1, discovered_leaders)
    /\ pending_request' = IF peers # <<>> THEN None ELSE pending_request
    /\ MdnsExpired(peers)
    /\ sub_event' = [kind |-> "Expired", peers |-> peers]
    /\ UNCHANGED <<mode, http_server, translated, codecVars, outbound, prompt, sub_exit, sub_printed,
                   first_reported, leaderVars, httpVars>>

SubExpired(peers) ==
    /\ mode = "ask" /\ sub_exit = Running
    /\ discovered_leaders' = SubExpiredLoop(peers, 1, discovered_leaders)
    /\ MdnsExpired(peers)
    /\ sub_event' = [kind |-> "Expired", peers |-> peers]
    /\ UNCHANGED <<mode, http_server, translated, codecVars, outbound, prompt, pending_request, sub_exit, sub_printed,
                   first_reported, leaderVars, httpVars>>

\* the `_ => {}` arm: every other SwarmEvent, an inbound Request included
SubOtherEvents == {"InboundRequest", "ConnectionEstablished", "ConnectionClosed"}
\* SubOther treating an inbound Request as fatal
SubOther_Terminates(kind) ==
    /\ mode = "ask" /\ sub_exit = Running
    /\ sub_event' = [kind |-> kind]
    /\ sub_exit' = IF kind = "InboundRequest" THEN Err(<<"Unexpected request">>)
                                              ELSE sub_exit
    /\ UNCHANGED <<mode, http_server, translated, codecVars, swarmVars, prompt, pending_request, discovered_leaders,
                   sub_printed, first_reported, leaderVars, httpVars>>

SubOther(kind) ==
    /\ mode = "ask" /\ sub_exit = Running
    /\ sub_event' = [kind |-> kind]
    /\ UNCHANGED <<mode, http_server, translated, codecVars, swarmVars, prompt, pending_request, discovered_leaders,
                   sub_exit, sub_printed, first_reported, leaderVars, httpVars>>

---------------------------------------------------------------------------
(* The Ollama backend collaborator *)

\* an anyhow::Error is a chain of messages, outermost first
BackendErrors == {<<"connection refused">>,
                  <<"error sending request", "connection refused">>}
\* what OllamaClient::generate may return
BackendResults == {Ok(t) : t \in Texts} \cup {Err(e) : e \in BackendErrors}

\* format!("{}", e) of an anyhow::Error: the outermost message, without its causes
Display(e) == e[1]

---------------------------------------------------------------------------
(* run_leader: the P2P-only loop *)

\* request.model.unwrap_or_else(|| model.clone())
LeaderModelName(request) ==
    IF request.model = None THEN model ELSE request.model.val

\* the InferenceResponse built from the result of generate
LeaderResponse(result) ==
    IF result.tag = "Ok"
    THEN InferenceResponse(result.val, TRUE, None)
    ELSE InferenceResponse("", FALSE, Some(Display(result.val)))

LeaderNewListenAddr ==
    /\ mode = "serve" /\ leader_pc = "select"
    /\ UNCHANGED vars

LeaderDiscovered(peers) ==
    /\ mode = "serve" /\ leader_pc = "select"
    /\ MdnsDiscovered(peers)
    /\ UNCHANGED <<mode, http_server, translated, codecVars, outbound, subVars, leaderVars, httpVars>>

\* the Request arm up to the await of generate
LeaderRequest(request) ==
    /\ mode = "serve" /\ leader_pc = "select"
    /\ n_requests < MaxServed
    /\ n_requests' = n_requests + 1
    /\ cur_request' = Some([request |-> request, channel |-> n_requests + 1])
    /\ ollama_call' = Some([prompt |-> request.prompt, model |-> LeaderModelName(request)])
    /\ leader_pc' = "generating"
    /\ UNCHANGED <<mode, http_server, translated, codecVars, swarmVars, subVars, model, n_replies, ollama_result,
                   last_reply, httpVars>>

\* the Request arm from the return of generate to send_response(..).ok()
LeaderGenerated(result, delivered) ==
    /\ mode = "serve" /\ leader_pc = "generating"
    /\ ollama_result' = Some(result)
    /\ last_reply' = Some([channel |-> cur_request.val.channel,
                           response |-> LeaderResponse(result),
                           delivered |-> delivered])
    /\ n_replies' = n_replies + 1
    /\ cur_request' = None
    /\ leader_pc' = "select"
    /\ UNCHANGED <<mode, http_server, translated, codecVars, swarmVars, subVars, model, n_requests, ollama_call,
                   httpVars>>

LeaderExpired(peers) ==
    /\ mode = "serve" /\ leader_pc = "select"
    /\ MdnsExpired(peers)
    /\ UNCHANGED <<mode, http_server, translated, codecVars, outbound, subVars, leaderVars, httpVars>>

\* the `_ => {}` arm: Response, OutboundFailure and every other SwarmEvent
LeaderOther ==
    /\ mode = "serve" /\ leader_pc = "select"
    /\ UNCHANGED vars

---------------------------------------------------------------------------
(* handle_ask: one HTTP /api/ask call per id *)

TimeoutText == "Request timeout"

\* the id of the next handle_ask call
NextAsk(id) == ask_pc[id] = "idle" /\ \A j \in DOMAIN ask_pc : j < id => ask_pc[j] # "idle"

\* HandleAskSend on an unbounded channel: the send never waits
HandleAskSend_Unbounded(id, p) ==
    /\ mode = "web"
    /\ NextAsk(id)
    /\ http_server = ServerRunning
    /\ command_rx' = Append(command_rx, [prompt |-> p, responder |-> id])
    /\ ask_pc' = [ask_pc EXCEPT ![id] = "waiting"]
    /\ UNCHANGED <<mode, http_server, translated, codecVars, swarmVars, subVars, leaderVars, pending_requests,
                   response_dropped, responder_sent, http_reply>>

\* oneshot::channel(), then command_tx.send(..).await: waits while the queue is full
HandleAskSend(id, p) ==
    /\ mode = "web"
    /\ NextAsk(id)
    /\ http_server = ServerRunning
    /\ Len(command_rx) < CommandCapacity
    /\ command_rx' = Append(command_rx, [prompt |-> p, responder |-> id])
    /\ ask_pc' = [ask_pc EXCEPT ![id] = "waiting"]
    /\ UNCHANGED <<mode, http_server, translated, codecVars, swarmVars, subVars, leaderVars, pending_requests,
                   response_dropped, responder_sent, http_reply>>

\* the map_err layers on the value received from resp_rx
HandleAskReply(result) ==
    IF result.tag = "Ok"
    THEN [status |-> 200, answer |-> result.val]
    ELSE [status |-> 500, error |-> result.val]

\* timeout(120 s, resp_rx) resolves with the value the reactor sent
HandleAskRecv(id) ==
    /\ mode = "web"
    /\ ask_pc[id] = "waiting"
    /\ responder_sent[id] # <<>>
    /\ http_reply' = [http_reply EXCEPT ![id] = Some(HandleAskReply(responder_sent[id][1]))]
    /\ ask_pc' = [ask_pc EXCEPT ![id] = "done"]
    /\ UNCHANGED <<mode, http_server, translated, codecVars, swarmVars, subVars, leaderVars, reactorHttpVars>>

\* HandleAskTimeout sending the command again and waiting on, instead of returning
HandleAskTimeout_Retry(id) ==
    /\ mode = "web"
    /\ ask_pc[id] = "waiting"
    /\ responder_sent[id] = <<>>
    /\ Len(command_rx) < CommandCapacity
    /\ \E p \in Prompts : command_rx' = Append(command_rx, [prompt |-> p, responder |-> id])
    /\ UNCHANGED <<mode, http_server, translated, codecVars, swarmVars, subVars, leaderVars, pending_requests,
                   response_dropped, responder_sent, handlerVars>>

\* timeout(120 s, resp_rx) elapses before anything was sent; resp_rx is dropped
HandleAskTimeout(id) ==
    /\ mode = "web"
    /\ ask_pc[id] = "waiting"
    /\ responder_sent[id] = <<>>
    /\ http_reply' = [http_reply EXCEPT ![id] = Some([status |-> 408, error |-> TimeoutText])]
    /\ ask_pc' = [ask_pc EXCEPT ![id] = "done"]
    /\ UNCHANGED <<mode, http_server, translated, codecVars, swarmVars, subVars, leaderVars, reactorHttpVars>>

---------------------------------------------------------------------------
(* run_leader_with_http: the loop bridged to the HTTP command surface *)

WebUiText == "Web UI mode currently requires P2P peers. Use 'ask' mode from another node."

\* responder_send writing the result to the slot a second time
responder_send_Twice(sent, responder, result) ==
    [sent EXCEPT ![responder] = Append(Append(@, result), result)]

\* responder.send(result): the Sender is consumed; the result of send is ignored
responder_send(sent, responder, result) ==
    [sent EXCEPT ![responder] = Append(@, result)]

\* AskResult carrying the reason "peer tracking not implemented"
AskResult_NotImplemented == Err("peer tracking not implemented")

\* what the Ask arm sends on the command's responder
AskResult == Err(WebUiText)

\* HttpCommand parking the responder in pending_requests instead of answering
HttpCommand_Deferred ==
    /\ mode = "web" /\ leader_pc = "select"
    /\ command_rx # <<>>
    /\ pending_requests' = insert(pending_requests, next_request_id(outbound),
                                  Head(command_rx).responder)
    /\ command_rx' = Tail(command_rx)
    /\ UNCHANGED <<mode, http_server, translated, codecVars, swarmVars, subVars, leaderVars, responder_sent,
                   response_dropped, handlerVars>>

\* HttpCommand dispatching the prompt to a discovered peer, as the commented-out
\* lines of the Ask arm would
HttpCommand_Dispatch ==
    /\ mode = "web" /\ leader_pc = "select"
    /\ command_rx # <<>>
    /\ LET cmd == Head(command_rx) IN
          IF mdns_discovered = {}
          THEN /\ responder_sent' = responder_send(responder_sent, cmd.responder, AskResult)
               /\ UNCHANGED <<outbound, pending_requests>>
          ELSE /\ \E peer \in mdns_discovered :
                    outbound' = send_request(outbound, peer,
                                             InferenceRequest(cmd.prompt, None))
               /\ pending_requests' = insert(pending_requests, next_request_id(outbound),
                                             cmd.responder)
               /\ UNCHANGED responder_sent
    /\ command_rx' = Tail(command_rx)
    /\ UNCHANGED <<mode, http_server, translated, codecVars, mdns_discovered, mdns_ever, subVars, leaderVars,
                   response_dropped, handlerVars>>

\* the `Some(cmd) = command_rx.recv()` branch
HttpCommand ==
    /\ mode = "web" /\ leader_pc = "select"
    /\ command_rx # <<>>
    /\ LET cmd == Head(command_rx) IN
          responder_sent' = responder_send(responder_sent, cmd.responder, AskResult)
    /\ command_rx' = Tail(command_rx)
    /\ UNCHANGED <<mode, http_server, translated, codecVars, swarmVars, subVars, leaderVars, pending_requests,
                   response_dropped, handlerVars>>

\* the spawned task ends: start_server returned (bind or serve failed) and the
\* Sender it owned is dropped; no further handle_ask call starts
HttpServerExit ==
    /\ mode = "web"
    /\ http_server = ServerRunning
    /\ http_server' = [state |-> "exited", taken |-> n_requests]
    /\ UNCHANGED <<mode, translated, codecVars, swarmVars, subVars, leaderVars, httpVars>>

\* every Sender is gone: the task's own, and the clone each running handle_ask holds
Closed ==
    /\ http_server # ServerRunning
    /\ \A id \in DOMAIN ask_pc : ask_pc[id] # "waiting"

\* HttpRecvNone leaving the loop when the command queue is closed
HttpRecvNone_Return ==
    /\ mode = "web" /\ leader_pc = "select"
    /\ command_rx = <<>> /\ Closed
    /\ leader_pc' = "returned"
    /\ UNCHANGED <<mode, http_server, translated, codecVars, swarmVars, subVars, model, cur_request,
                   n_requests, n_replies, ollama_call, ollama_result, last_reply, httpVars>>

\* command_rx.recv() yields None: the pattern Some(cmd) does not match, select!
\* disables the branch and goes on awaiting the swarm
HttpRecvNone ==
    /\ mode = "web" /\ leader_pc = "select"
    /\ command_rx = <<>> /\ Closed
    /\ UNCHANGED vars

HttpNewListenAddr ==
    /\ mode = "web" /\ leader_pc = "select"
    /\ UNCHANGED vars

HttpDiscovered(peers) ==
    /\ mode = "web" /\ leader_pc = "select"
    /\ MdnsDiscovered(peers)
    /\ UNCHANGED <<mode, http_server, translated, codecVars, outbound, subVars, leaderVars, httpVars>>

\* HttpModelName passing the default model whatever the request names
HttpModelName_IgnoresRequest(request) == model

\* request.model.unwrap_or_else(|| model.clone())
HttpModelName(request) ==
    IF request.model = None THEN model ELSE request.model.val

\* HttpLeaderResponse leaving success set on the failure path
HttpLeaderResponse_SuccessOnError(result) ==
    IF result.tag = "Ok"
    THEN InferenceResponse(result.val, TRUE, None)
    ELSE InferenceResponse("", TRUE, Some(Display(result.val)))

\* the InferenceResponse built from the result of generate
HttpLeaderResponse(result) ==
    IF result.tag = "Ok"
    THEN InferenceResponse(result.val, TRUE, None)
    ELSE InferenceResponse("", FALSE, Some(Display(result.val)))

\* HttpRequest taking the next request while a generate call is still in flight,
\* as a loop that spawned a task for each request would
HttpRequest_Concurrent(request) ==
    /\ mode = "web"
    /\ n_requests < MaxServed
    /\ n_requests' = n_requests + 1
    /\ cur_request' = Some([request |-> request, channel |-> n_requests + 1])
    /\ ollama_call' = Some([prompt |-> request.prompt, model |-> HttpModelName(request)])
    /\ leader_pc' = "generating"
    /\ UNCHANGED <<mode, http_server, translated, codecVars, swarmVars, subVars, model, n_replies, ollama_result,
                   last_reply, httpVars>>

\* the Request arm up to the await of generate
HttpRequest(request) ==
    /\ mode = "web" /\ leader_pc = "select"
    /\ n_requests < MaxServed
    /\ n_requests' = n_requests + 1
    /\ cur_request' = Some([request |-> request, channel |-> n_requests + 1])
    /\ ollama_call' = Some([prompt |-> request.prompt, model |-> HttpModelName(request)])
    /\ leader_pc' = "generating"
    /\ UNCHANGED <<mode, http_server, translated, codecVars, swarmVars, subVars, model, n_replies, ollama_result,
                   last_reply, httpVars>>

\* HttpGenerated propagating a failed send_response with `?` instead of `.ok()`
HttpGenerated_StopOnSendFailure(result, delivered) ==
    /\ mode = "web" /\ leader_pc = "generating"
    /\ ollama_result' = Some(result)
    /\ last_reply' = Some([channel |-> cur_request.val.channel,
                           response |-> HttpLeaderResponse(result),
                           delivered |-> delivered])
    /\ n_replies' = n_replies + 1
    /\ cur_request' = None
    /\ leader_pc' = IF delivered THEN "select" ELSE "returned"
    /\ UNCHANGED <<mode, http_server, translated, codecVars, swarmVars, subVars, model, n_requests, ollama_call,
                   httpVars>>

\* the Request arm from the return of generate to send_response(..).ok()
HttpGenerated(result, delivered) ==
    /\ mode = "web" /\ leader_pc = "generating"
    /\ ollama_result' = Some(result)
    /\ last_reply' = Some([channel |-> cur_request.val.channel,
                           response |-> HttpLeaderResponse(result),
                           delivered |-> delivered])
    /\ n_replies' = n_replies + 1
    /\ cur_request' = None
    /\ leader_pc' = "select"
    /\ UNCHANGED <<mode, http_server, translated, codecVars, swarmVars, subVars, model, n_requests, ollama_call,
                   httpVars>>

\* the translation keyed on the presence of an error instead of on success
ResponseToResult_ByErrorField(response) ==
    IF response.error = None
    THEN Ok(response.response)
    ELSE Err(response.error.val)

\* the Result<String, String> a Response is translated into
ResponseToResult(response) ==
    IF response.success
    THEN Ok(response.response)
    ELSE Err(IF response.error = None THEN "Unknown error" ELSE response.error.val)

\* `let result = if response.success {..} else {..}` applied to one more response
Translate(response) ==
    /\ mode = "web"
    /\ Len(translated) < MaxTranslated
    /\ translated' = Append(translated, [response |-> response,
                                          result |-> ResponseToResult(response)])
    /\ UNCHANGED <<mode, http_server, swarmVars, subVars, leaderVars, httpVars, codecVars>>

\* Resolve handing an unmatched Response to the first command's responder
Resolve_Unmatched(st, request_id, response) ==
    IF contains_key(st.pending, request_id)
    THEN [pending |-> remove(st.pending, request_id),
          sent |-> responder_send(st.sent, st.pending[request_id],
                                  ResponseToResult(response)),
          dropped |-> st.dropped]
    ELSE [pending |-> st.pending,
          sent |-> responder_send(st.sent, 1, ResponseToResult(response)),
          dropped |-> TRUE]

\* pending_requests.remove(&request_id) and, on Some(responder), responder.send:
\* the pending map and the Senders' logs after a Response; st = [pending, sent, dropped]
Resolve(st, request_id, response) ==
    IF contains_key(st.pending, request_id)
    THEN [pending |-> remove(st.pending, request_id),
          sent |-> responder_send(st.sent, st.pending[request_id],
                                  ResponseToResult(response)),
          dropped |-> st.dropped]
    ELSE [pending |-> st.pending, sent |-> st.sent, dropped |-> TRUE]

\* the Response arm
HttpResponse(request_id, response) ==
    /\ mode = "web" /\ leader_pc = "select"
    /\ LET st == Resolve([pending |-> pending_requests, sent |-> responder_sent,
                          dropped |-> response_dropped], request_id, response)
       IN /\ pending_requests' = st.pending
          /\ responder_sent' = st.sent
          /\ response_dropped' = st.dropped
    /\ UNCHANGED <<mode, http_server, translated, codecVars, swarmVars, subVars, leaderVars, command_rx, handlerVars>>

HttpExpired(peers) ==
    /\ mode = "web" /\ leader_pc = "select"
    /\ MdnsExpired(peers)
    /\ UNCHANGED <<mode, http_server, translated, codecVars, outbound, subVars, leaderVars, httpVars>>

\* the `_ => {}` arm: OutboundFailure and every other SwarmEvent
HttpOther ==
    /\ mode = "web" /\ leader_pc = "select"
    /\ UNCHANGED vars

---------------------------------------------------------------------------
(* InferenceCodec: byte counts *)

\* A byte count (usize) is kept as two limbs <<hi, lo>> of value hi * 2^16 + lo,
\* with lo < 2^16, so that counts of 2^32 and more can be written down
Limb == 256 * 256
Zero == <<0, 0>>
One == <<0, 1>>
Four == <<0, 4>>
BigAdd(a, b) ==
    LET lo == a[2] + b[2] IN <<a[1] + b[1] + (lo \div Limb), lo % Limb>>
BigLess(a, b) == a[1] < b[1] \/ (a[1] = b[1] /\ a[2] < b[2])
\* a - b, for b not above a
BigSub(a, b) ==
    IF a[2] >= b[2] THEN <<a[1] - b[1], a[2] - b[2]>>
    ELSE <<a[1] - b[1] - 1, a[2] + Limb - b[2]>>

\* `data.len() as u32`: the low 32 bits
AsU32(len) == <<len[1] % Limb, len[2]>>
\* u32::to_be_bytes and u32::from_be_bytes
to_be_bytes(length) ==
    <<length[1] \div 256, length[1] % 256, length[2] \div 256, length[2] % 256>>
from_be_bytes(b) == <<b[1] * 256 + b[2], b[3] * 256 + b[4]>>

---------------------------------------------------------------------------
(* InferenceCodec: bytes *)

\* A byte string is a list of runs [b |-> byte, n |-> count]: n copies of b.
\* The ASCII codes of the characters the frames are made of
Code(c) ==
    CASE c = "{" -> 123 [] c = "}" -> 125 [] c = "\"" -> 34 [] c = "\\" -> 92
      [] c = ":" -> 58 [] c = "," -> 44
      [] c = "a" -> 97 [] c = "c" -> 99 [] c = "d" -> 100 [] c = "e" -> 101
      [] c = "f" -> 102 [] c = "l" -> 108 [] c = "m" -> 109 [] c = "n" -> 110
      [] c = "o" -> 111 [] c = "p" -> 112 [] c = "r" -> 114 [] c = "s" -> 115
      [] c = "t" -> 116 [] c = "u" -> 117

Run(b, n) == [b |-> b, n |-> n]
\* the bytes of a literal, given as the list of its characters
Lit(chars) == [i \in 1..Len(chars) |-> Run(Code(chars[i]), One)]
\* the single bytes as a byte string
Raw(bytes) == [i \in 1..Len(bytes) |-> Run(bytes[i], One)]

\* data.len(): the counts of the runs added up, one half after the other
RECURSIVE ByteLen(_)
ByteLen(bytes) ==
    IF bytes = <<>> THEN Zero
    ELSE IF Len(bytes) = 1 THEN bytes[1].n
    ELSE LET mid == Len(bytes) \div 2 IN
         BigAdd(ByteLen(SubSeq(bytes, 1, mid)), ByteLen(SubSeq(bytes, mid + 1, Len(bytes))))

\* the first byte, and the bytes after it
HeadByte(bytes) == bytes[1].b
TailBytes(bytes) ==
    IF bytes[1].n = One THEN Tail(bytes)
    ELSE <<Run(bytes[1].b, BigSub(bytes[1].n, One))>> \o Tail(bytes)

---------------------------------------------------------------------------
(* InferenceCodec: serde_json::to_vec of the two message types *)

Quote == Code("\"")
Backslash == Code("\\")

\* the characters of a String between its quotes: `"` and `\` are escaped, every
\* other byte is copied (a run of them as a run)
RECURSIVE Escape(_)
Escape(s) ==
    IF s = <<>> THEN <<>>
    ELSE IF s[1].b \in {Quote, Backslash}
         THEN <<Run(Backslash, One), Run(s[1].b, One)>> \o Escape(TailBytes(s))
         ELSE <<s[1]>> \o Escape(Tail(s))

JsonString(s) == Lit(<<"\"">>) \o Escape(s) \o Lit(<<"\"">>)
JsonNull == Lit(<<"n", "u", "l", "l">>)
JsonOption(o) == IF o = None THEN JsonNull ELSE JsonString(o.val)
JsonBool(b) ==
    IF b THEN Lit(<<"t", "r", "u", "e">>) ELSE Lit(<<"f", "a", "l", "s", "e">>)

KeyPrompt == Lit(<<"\"", "p", "r", "o", "m", "p", "t", "\"", ":">>)
KeyModel == Lit(<<"\"", "m", "o", "d", "e", "l", "\"", ":">>)
KeyResponse == Lit(<<"\"", "r", "e", "s", "p", "o", "n", "s", "e", "\"", ":">>)
KeySuccess == Lit(<<"\"", "s", "u", "c", "c", "e", "s", "s", "\"", ":">>)
KeyError == Lit(<<"\"", "e", "r", "r", "o", "r", "\"", ":">>)
Open == Lit(<<"{">>)
Comma == Lit(<<",">>)
Close == Lit(<<"}">>)

\* serde_json::to_vec(&req): {"prompt":..,"model":..}
to_vec_request(req) ==
    Open \o KeyPrompt \o JsonString(req.prompt) \o Comma
         \o KeyModel \o JsonOption(req.model) \o Close
\* serde_json::to_vec(&res): {"response":..,"success":..,"error":..}
to_vec_response(res) ==
    Open \o KeyResponse \o JsonString(res.response) \o Comma
         \o KeySuccess \o JsonBool(res.success) \o Comma
         \o KeyError \o JsonOption(res.error) \o Close

---------------------------------------------------------------------------
(* InferenceCodec: read_request and read_response *)

\* io::ErrorKind::InvalidData, as built from a serde_json error
MalformedError == Err([kind |-> "InvalidData"])

\* TruncationError reported with the kind of a malformed payload
TruncationError_InvalidData == Err([kind |-> "InvalidData"])

\* the error read_exact returns at end of stream: io::ErrorKind::UnexpectedEof
TruncationError == Err([kind |-> "UnexpectedEof"])

\* io.read_exact(&mut buf) for a buf of k bytes, on the bytes the stream still
\* yields: the filled buf and the bytes left, or ok = FALSE when the stream
\* ends before the k-th byte
read_exact(bytes, k) ==
    IF k = Zero THEN [ok |-> TRUE, buf |-> <<>>, rest |-> bytes]
    ELSE IF BigLess(ByteLen(bytes), k) THEN [ok |-> FALSE, buf |-> bytes, rest |-> <<>>]
    ELSE LET \* the run the k-th byte is in
             i == CHOOSE j \in 1..Len(bytes) :
                     /\ BigLess(ByteLen(SubSeq(bytes, 1, j - 1)), k)
                     /\ ~BigLess(ByteLen(SubSeq(bytes, 1, j)), k)
             take == BigSub(k, ByteLen(SubSeq(bytes, 1, i - 1)))
             left == BigSub(bytes[i].n, take)
         IN [ok |-> TRUE,
             buf |-> SubSeq(bytes, 1, i - 1) \o <<Run(bytes[i].b, take)>>,
             rest |-> (IF left = Zero THEN <<>> ELSE <<Run(bytes[i].b, left)>>)
                         \o SubSeq(bytes, i + 1, Len(bytes))]

\* the first k single bytes of a byte string that has them
RECURSIVE FirstBytes(_, _)
FirstBytes(bytes, k) ==
    IF k = 0 THEN <<>> ELSE <<HeadByte(bytes)>> \o FirstBytes(TailBytes(bytes), k - 1)

\* the part of both readers before from_slice: the length prefix, then the buffer
read_frame(stream) ==
    LET p == read_exact(stream, Four) IN
    IF ~p.ok THEN TruncationError
    ELSE LET length == from_be_bytes(FirstBytes(p.buf, 4))
             d == read_exact(p.rest, length)
         IN IF ~d.ok THEN TruncationError ELSE Ok(d.buf)

\* serde_json's parser, on the layout to_vec writes: the frames read here are
\* frames of this codec and their prefixes
RECURSIVE Expect(_, _)
Expect(bytes, lit) ==
    IF lit = <<>> THEN [ok |-> TRUE, rest |-> bytes]
    ELSE IF bytes = <<>> \/ HeadByte(bytes) # lit[1].b THEN [ok |-> FALSE, rest |-> <<>>]
    ELSE Expect(TailBytes(bytes), Tail(lit))

\* the characters of a string up to its closing quote
RECURSIVE ParseChars(_, _)
ParseChars(bytes, acc) ==
    IF bytes = <<>> THEN [ok |-> FALSE, val |-> acc, rest |-> <<>>]
    ELSE IF HeadByte(bytes) = Quote
         THEN [ok |-> TRUE, val |-> acc, rest |-> TailBytes(bytes)]
    ELSE IF HeadByte(bytes) = Backslash
         THEN LET r == TailBytes(bytes) IN
              IF r # <<>> /\ HeadByte(r) \in {Quote, Backslash}
              THEN ParseChars(TailBytes(r), Append(acc, Run(HeadByte(r), One)))
              ELSE [ok |-> FALSE, val |-> acc, rest |-> <<>>]
    ELSE ParseChars(Tail(bytes), Append(acc, bytes[1]))

ParseString(bytes) ==
    IF bytes = <<>> \/ HeadByte(bytes) # Quote
    THEN [ok |-> FALSE, val |-> <<>>, rest |-> <<>>]
    ELSE ParseChars(TailBytes(bytes), <<>>)

ParseOption(bytes) ==
    IF bytes # <<>> /\ HeadByte(bytes) = Code("n")
    THEN LET e == Expect(bytes, JsonNull) IN [ok |-> e.ok, val |-> None, rest |-> e.rest]
    ELSE LET s == ParseString(bytes) IN [ok |-> s.ok, val |-> Some(s.val), rest |-> s.rest]

ParseBool(bytes) ==
    IF bytes # <<>> /\ HeadByte(bytes) = Code("t")
    THEN LET e == Expect(bytes, JsonBool(TRUE)) IN [ok |-> e.ok, val |-> TRUE, rest |-> e.rest]
    ELSE LET e == Expect(bytes, JsonBool(FALSE)) IN [ok |-> e.ok, val |-> FALSE, rest |-> e.rest]

\* serde_json::from_slice::<InferenceRequest>(&buffer).map_err(InvalidData)
from_slice_request(buffer) ==
    LET a == Expect(buffer, Open \o KeyPrompt)
        p == ParseString(a.rest)
        b == Expect(p.rest, Comma \o KeyModel)
        m == ParseOption(b.rest)
        c == Expect(m.rest, Close)
    IN IF a.ok /\ p.ok /\ b.ok /\ m.ok /\ c.ok /\ c.rest = <<>>
       THEN Ok(InferenceRequest(p.val, m.val))
       ELSE MalformedError

\* serde_json::from_slice::<InferenceResponse>(&buffer).map_err(InvalidData)
from_slice_response(buffer) ==
    LET a == Expect(buffer, Open \o KeyResponse)
        r == ParseString(a.rest)
        b == Expect(r.rest, Comma \o KeySuccess)
        s == ParseBool(b.rest)
        c == Expect(s.rest, Comma \o KeyError)
        e == ParseOption(c.rest)
        d == Expect(e.rest, Close)
    IN IF a.ok /\ r.ok /\ b.ok /\ s.ok /\ c.ok /\ e.ok /\ d.ok /\ d.rest = <<>>
       THEN Ok(InferenceResponse(r.val, s.val, e.val))
       ELSE MalformedError

read_request(stream) ==
    LET f == read_frame(stream) IN
    IF f.tag = "Err" THEN f ELSE from_slice_request(f.val)
read_response(stream) ==
    LET f == read_frame(stream) IN
    IF f.tag = "Err" THEN f ELSE from_slice_response(f.val)

---------------------------------------------------------------------------
(* InferenceCodec: write_request and write_response, and the substream *)

\* Strings a message may carry: empty, short, with characters that are escaped,
\* long and within the u32 range, and of 2^32 bytes
LargeString == <<Run(Code("a"), <<Limb - 1, 0>>)>>
HugeString == <<Run(Code("a"), <<Limb, 0>>)>>
CodecStrings ==
    {<<>>, Lit(<<"a">>), Lit(<<"a", "\"", "\\", "a">>), LargeString, HugeString}
CodecRequests ==
    {InferenceRequest(p, m) : p \in CodecStrings, m \in {None, Some(Lit(<<"a">>))}}
CodecResponses ==
    {InferenceResponse(t, s, e) :
        t \in CodecStrings, s \in BOOLEAN, e \in {None, Some(Lit(<<"\\", "a">>))}}
CodecMessages ==
    {[kind |-> "request", msg |-> m] : m \in CodecRequests}
       \cup {[kind |-> "response", msg |-> m] : m \in CodecResponses}

\* `data`: serde_json::to_vec of the message being written
CodecData ==
    IF codec_msg.val.kind = "request"
    THEN to_vec_request(codec_msg.val.msg)
    ELSE to_vec_response(codec_msg.val.msg)

\* io.write_all(&length.to_be_bytes()).await, with length = data.len() as u32
WritePrefix ==
    /\ codec_pc = "write_prefix"
    /\ wire' = wire \o Raw(to_be_bytes(AsU32(ByteLen(CodecData))))
    /\ codec_pc' = "write_payload"
    /\ UNCHANGED <<mode, http_server, translated, swarmVars, subVars, leaderVars, httpVars, codec_msg,
                   received, codec_read>>

\* io.write_all(&data).await
WritePayload ==
    /\ codec_pc = "write_payload"
    /\ wire' = wire \o CodecData
    /\ codec_pc' = "close"
    /\ UNCHANGED <<mode, http_server, translated, swarmVars, subVars, leaderVars, httpVars, codec_msg,
                   received, codec_read>>

\* io.close().await, then Ok(())
WriteClose ==
    /\ codec_pc = "close"
    /\ codec_pc' = "closed"
    /\ UNCHANGED <<mode, http_server, translated, swarmVars, subVars, leaderVars, httpVars, codec_msg, wire,
                   received, codec_read>>

\* any of the three awaits returning an io::Error, which `?` propagates
WriteFail ==
    /\ codec_pc \in {"write_prefix", "write_payload", "close"}
    /\ codec_pc' = "failed"
    /\ UNCHANGED <<mode, http_server, translated, swarmVars, subVars, leaderVars, httpVars, codec_msg, wire,
                   received, codec_read>>

\* where a byte string can be cut: after any run, or one byte into a longer run
Cuts(bytes) ==
    {SubSeq(bytes, 1, i) : i \in 0..Len(bytes)}
       \cup {SubSeq(bytes, 1, i - 1) \o <<Run(bytes[i].b, One)>> :
                i \in {j \in 1..Len(bytes) : bytes[j].n # One}}

\* the substream ends for the reader: it has got everything written, or only a
\* part of it when the connection was lost
StreamEnd ==
    /\ codec_pc \in {"closed", "failed"}
    /\ received = None
    /\ \E bytes \in Cuts(wire) : received' = Some(bytes)
    /\ UNCHANGED <<mode, http_server, translated, swarmVars, subVars, leaderVars, httpVars, codec_msg,
                   codec_pc, wire, codec_read>>

\* read_request or read_response on the reading end
CodecRead ==
    /\ received # None
    /\ codec_read = None
    /\ codec_read' = Some(IF codec_msg.val.kind = "request"
                          THEN read_request(received.val)
                          ELSE read_response(received.val))
    /\ UNCHANGED <<mode, http_server, translated, swarmVars, subVars, leaderVars, httpVars, codec_msg,
                   codec_pc, wire, received>>

---------------------------------------------------------------------------
(* Specifications *)

\* the state of a process after construction, in mode m, with handle_ask calls
\* `ids` to come
InitProcess(m, ids) ==
    /\ mode = m
    /\ mdns_discovered = {}
    /\ mdns_ever = FALSE
    /\ outbound = <<>>
    /\ prompt \in Prompts
    /\ pending_request = None
    /\ discovered_leaders = EmptyMap
    /\ sub_exit = Running
    /\ sub_printed = None
    /\ first_reported = None
    /\ sub_event = [kind |-> "none"]
    /\ model = DefaultModel
    /\ leader_pc = "select"
    /\ cur_request = None
    /\ n_requests = 0
    /\ n_replies = 0
    /\ ollama_call = None
    /\ ollama_result = None
    /\ last_reply = None
    /\ command_rx = <<>>
    /\ pending_requests = EmptyMap
    /\ response_dropped = FALSE
    /\ responder_sent = [id \in ids |-> <<>>]
    /\ ask_pc = [id \in ids |-> "idle"]
    /\ http_reply = [id \in ids |-> None]
    /\ translated = <<>>
    /\ http_server = IF m = "web" THEN ServerRunning ELSE [state |-> "absent"]

\* a process, and no substream open yet
InitWith(m, ids) ==
    /\ InitProcess(m, ids)
    /\ codec_msg = None
    /\ codec_pc = "idle"
    /\ wire = <<>>
    /\ received = None
    /\ codec_read = None

InitMode(m) == InitWith(m, AskIds)

Init == \E m \in {"serve", "web", "ask"} : InitMode(m)
InitSub == InitMode("ask")
InitWeb == InitMode("web")
\* more concurrent handle_ask calls than the command queue has room for
InitQueue == InitWith("web", QueueIds)

NextSub ==
    \/ SubNewListenAddr
    \/ \E peers \in Batches : SubDiscovered(peers)
    \/ \E response \in WireResponses : SubResponse(response)
    \/ \E error \in OutboundFailures : SubOutboundFailure(error)
    \/ \E peers \in Batches : SubExpired(peers)
    \/ \E kind \in SubOtherEvents : SubOther(kind)

NextServe ==
    \/ LeaderNewListenAddr
    \/ \E peers \in Batches : LeaderDiscovered(peers)
    \/ \E request \in InboundRequests : LeaderRequest(request)
    \/ \E result \in BackendResults, delivered \in BOOLEAN : LeaderGenerated(result, delivered)
    \/ \E peers \in Batches : LeaderExpired(peers)
    \/ LeaderOther

NextWeb ==
    \/ \E id \in AskIds, p \in Prompts : HandleAskSend(id, p)
    \/ \E id \in AskIds : HandleAskRecv(id)
    \/ \E id \in AskIds : HandleAskTimeout(id)
    \/ HttpCommand
    \/ HttpNewListenAddr
    \/ \E peers \in Batches : HttpDiscovered(peers)
    \/ \E request \in InboundRequests : HttpRequest(request)
    \/ \E result \in BackendResults, delivered \in BOOLEAN : HttpGenerated(result, delivered)
    \/ \E request_id \in ReqIds, response \in WireResponses : HttpResponse(request_id, response)
    \/ \E peers \in Batches : HttpExpired(peers)
    \/ HttpOther

\* the two ends of the command queue: the producers' send and the consumer's recv
\* a substream on which the Subordinate writes a request, or the Leader a response
InitCodec ==
    \E message \in CodecMessages :
        /\ InitProcess(IF message.kind = "request" THEN "ask" ELSE "serve", AskIds)
        /\ codec_msg = Some(message)
        /\ codec_pc = "write_prefix"
        /\ wire = <<>>
        /\ received = None
        /\ codec_read = None

\* the writer, the substream and the reader
NextCodec ==
    \/ WritePrefix
    \/ WritePayload
    \/ WriteClose
    \/ WriteFail
    \/ StreamEnd
    \/ CodecRead

\* responses arriving one after another, each translated
NextTranslate == \E response \in WireResponses : Translate(response)

\* the HTTP-bridged Leader whose HTTP server task may end: the handle_ask calls,
\* the server task, both branches of select!, and of the swarm's events those
\* whose arms do more than print (the mdns arms are in NextWeb)
NextWebExit ==
    \/ \E id \in AskIds, p \in Prompts : HandleAskSend(id, p)
    \/ \E id \in AskIds : HandleAskRecv(id)
    \/ \E id \in AskIds : HandleAskTimeout(id)
    \/ HttpServerExit
    \/ HttpCommand
    \/ HttpRecvNone
    \/ \E request \in InboundRequests : HttpRequest(request)
    \/ \E result \in BackendResults, delivered \in BOOLEAN : HttpGenerated(result, delivered)
    \/ \E request_id \in ReqIds, response \in WireResponses : HttpResponse(request_id, response)
    \/ HttpOther

NextQueue ==
    \/ \E id \in QueueIds, p \in Prompts : HandleAskSend(id, p)
    \/ HttpCommand

Next == NextSub \/ NextServe \/ NextWeb

\* every mode
Spec == Init /\ [][Next]_vars

\* the Subordinate process alone
SpecSub == InitSub /\ [][NextSub]_vars

\* the HTTP-bridged Leader process alone
SpecWeb == InitWeb /\ [][NextWeb]_vars

\* the command queue under more producers than it has room for
SpecQueue == InitQueue /\ [][NextQueue]_vars

\* the translation of the Response arm applied to any response a peer can send
SpecTranslate == InitWeb /\ [][NextTranslate]_vars

\* the HTTP-bridged Leader process, its HTTP server task ending at any moment
SpecWebExit == InitWeb /\ [][NextWebExit]_vars

\* one message through the codec
SpecCodec == InitCodec /\ [][NextCodec]_vars

\* the HTTP-bridged Leader with the runtime's scheduling of handle_ask: a call
\* awaiting timeout(120 s, resp_rx) is woken by the value sent on its channel or,
\* failing that, by the timer, and then runs to its return
SpecWebFair ==
    SpecWeb /\ \A id \in AskIds : WF_vars(HandleAskRecv(id) \/ HandleAskTimeout(id))

---------------------------------------------------------------------------
(* Properties *)

\* the reactor took a command off the queue in this step
CommandTaken == Len(command_rx') < Len(command_rx)

\* C1 as stated: an Ask command processed while no peer is known is answered in the
\* same reactor iteration with the failure "no peer available".
C1_NoPeerAvailableReason ==
    [][(CommandTaken /\ mdns_discovered = {}) =>
         responder_sent'[Head(command_rx).responder] = <<Err("no peer available")>>]_vars

\* C1 (amended): an Ask command processed while no peer is known is answered in the
\* same reactor iteration, by a failure whose reason is the Web UI text; nothing is
\* dispatched and nothing is left pending.
C1_NoPeerImmediateFailure ==
    [][(CommandTaken /\ mdns_discovered = {}) =>
         /\ responder_sent'[Head(command_rx).responder] =
              <<Err("Web UI mode currently requires P2P peers. Use 'ask' mode from another node.")>>
         /\ pending_requests' = pending_requests
         /\ outbound' = outbound
         /\ leader_pc' = "select"]_vars

\* an Ask was answered with a failure although mdns never reported a peer
C1_Witness ==
    /\ mode = "web" /\ ~mdns_ever
    /\ \E id \in AskIds : /\ Len(responder_sent[id]) = 1
                          /\ responder_sent[id][1].tag = "Err"
                          /\ ask_pc[id] = "waiting"

\* C2: an Ask command processed while a peer is known dispatches an InferenceRequest
\* with the command's prompt to a known peer and registers the returned request_id
\* with the command's responder in pending_requests.
C2_AskDispatchesAndRegisters ==
    [][(CommandTaken /\ mdns_discovered # {}) =>
         LET cmd == Head(command_rx)
             id == next_request_id(outbound)
         IN /\ Len(outbound') = Len(outbound) + 1
            /\ outbound'[id].peer \in mdns_discovered
            /\ outbound'[id].request.prompt = cmd.prompt
            /\ contains_key(pending_requests', id)
            /\ pending_requests'[id] = cmd.responder
            /\ responder_sent'[cmd.responder] = <<>>]_vars

C5_SendsOnceToFirstDiscovered ==
    /\ Len(outbound) <= 1
    /\ outbound # <<>> => first_reported = Some(outbound[1].peer)
    /\ first_reported # None => Len(outbound) = 1

\* a later batch of two peers, led by a peer other than the target, was taken
\* while the one request was outstanding
C5_Witness ==
    /\ mode = "ask" /\ Len(outbound) = 1
    /\ sub_event.kind = "Discovered" /\ Len(sub_event.peers) = 2
    /\ sub_event.peers[1] # outbound[1].peer
    /\ Cardinality(DOMAIN discovered_leaders) = 2

\* C6: a Response makes run_subordinate return Ok, whatever response.success is,
\* and no step is taken once run_subordinate has returned.
C6_ResponseCompletes ==
    /\ [](sub_event.kind = "Response" => sub_exit = Ok("unit"))
    /\ [][sub_exit = Running /\ (sub_event'.kind = "Response" => sub_exit' # Running)]_vars

\* the Subordinate returned Ok on a Response with success == false
C6_Witness ==
    /\ mode = "ask" /\ sub_exit = Ok("unit")
    /\ sub_event.kind = "Response" /\ ~sub_event.response.success

\* C7: an OutboundFailure makes run_subordinate return Err carrying the transport
\* error; the request was sent once, nothing was printed as a response, and the
\* exit is final.
C7_OutboundFailureFails ==
    /\ [](sub_event.kind = "OutboundFailure" =>
            /\ sub_exit.tag = "Err"
            /\ sub_exit.val[2] = sub_event.error
            /\ Len(outbound) = 1
            /\ sub_printed = None)
    /\ [][sub_exit.tag = "Err" => sub_exit' = sub_exit]_vars

\* the Subordinate failed on the protocol timeout
C7_Witness ==
    /\ mode = "ask" /\ sub_exit.tag = "Err"
    /\ sub_event = [kind |-> "OutboundFailure", error |-> "Timeout"]
    /\ pending_request = Some(1)

\* C8: once a request is outstanding, no step changes pending_request or calls
\* send_request again, and neither an Expired nor a Discovered event makes
\* run_subordinate return.
C8_ExpiryLeavesRequestPending ==
    [][pending_request # None =>
         /\ pending_request' = pending_request
         /\ outbound' = outbound
         /\ (sub_event'.kind \in {"Expired", "Discovered"} => sub_exit' = Running)]_vars

\* the targeted peer expired while the request was outstanding
C8_Witness ==
    /\ mode = "ask" /\ sub_exit = Running
    /\ pending_request = Some(1)
    /\ sub_event.kind = "Expired"
    /\ outbound[1].peer \in Range(sub_event.peers)
    /\ ~contains_key(discovered_leaders, outbound[1].peer)

\* C9: a Discovered event leaves exactly the peers known before plus the peers it
\* lists (listing a known peer, or a peer twice, adds nothing); an Expired event
\* leaves exactly the peers known before minus the peers it lists (a peer that is
\* not known changes nothing).
C9_RegistryIdempotent ==
    [][/\ sub_event'.kind = "Discovered" =>
            /\ DOMAIN discovered_leaders' =
                 DOMAIN discovered_leaders \cup Range(sub_event'.peers)
            /\ (Range(sub_event'.peers) \subseteq DOMAIN discovered_leaders =>
                  discovered_leaders' = discovered_leaders)
       /\ sub_event'.kind = "Expired" =>
            /\ DOMAIN discovered_leaders' =
                 DOMAIN discovered_leaders \ Range(sub_event'.peers)
            /\ (Range(sub_event'.peers) \cap DOMAIN discovered_leaders = {} =>
                  discovered_leaders' = discovered_leaders)]_vars

\* one Discovered event listed the same peer twice and the registry holds it once
C9_Witness ==
    /\ mode = "ask"
    /\ sub_event.kind = "Discovered" /\ Len(sub_event.peers) = 2
    /\ sub_event.peers[1] = sub_event.peers[2]
    /\ DOMAIN discovered_leaders = {sub_event.peers[1]}

\* C10: in both Leader loops the response handed to send_response is
\* {text, success: true, error: None} when generate returned Ok(text) and
\* {"", success: false, error: Some(message)} when it returned an error with that
\* message; so success is false exactly when error is present.
C10_LeaderResponseShape ==
    last_reply # None =>
        LET result == ollama_result.val
            response == last_reply.val.response
        IN /\ result.tag = "Ok" =>
                response = [response |-> result.val, success |-> TRUE, error |-> None]
           /\ result.tag = "Err" =>
                response = [response |-> "", success |-> FALSE,
                            error |-> Some(result.val[1])]
           /\ (response.success = FALSE) <=> (response.error # None)

\* the HTTP-bridged Leader answered a request whose backend call failed
C10_Witness ==
    /\ mode = "web" /\ last_reply # None
    /\ ollama_result.val.tag = "Err"
    /\ ~last_reply.val.response.success

\* C11: the model passed to generate is request.model when present and the
\* Leader's configured default when absent, in both Leader loops, and serving
\* requests never changes the configured default.
C11_ModelPassedToBackend ==
    /\ [](leader_pc = "generating" =>
            /\ cur_request # None /\ ollama_call # None
            /\ ollama_call.val.prompt = cur_request.val.request.prompt
            /\ ollama_call.val.model =
                  (IF cur_request.val.request.model = None
                   THEN model
                   ELSE cur_request.val.request.model.val))
    /\ [][model' = model]_vars

\* a second request, naming no model, is passed to the backend with the default
\* the Leader was started with
C11_Witness ==
    /\ leader_pc = "generating" /\ n_requests = 2
    /\ cur_request.val.request.model = None
    /\ ollama_call.val.model = "qwen:0.5b"

C13_OneReplyAttemptThenListening ==
    /\ [](/\ leader_pc \in {"select", "generating"}
          /\ n_requests = n_replies + (IF leader_pc = "generating" THEN 1 ELSE 0)
          /\ last_reply # None => last_reply.val.channel = n_replies)
    /\ [][n_replies' # n_replies =>
            /\ n_replies' = n_replies + 1
            /\ leader_pc = "generating" /\ leader_pc' = "select"
            /\ last_reply'.val.channel = cur_request.val.channel
            /\ cur_request' = None]_vars
    /\ [][(mode \in {"serve", "web"} /\ leader_pc = "select" /\ n_requests < MaxServed)' =>
            (ENABLED (\E request \in InboundRequests :
                         LeaderRequest(request) \/ HttpRequest(request)))']_vars

\* a request is being served after one whose backend call failed and whose
\* reply could not be delivered
C13_Witness ==
    /\ leader_pc = "generating" /\ n_requests = 2 /\ n_replies = 1
    /\ ollama_result.val.tag = "Err"
    /\ ~last_reply.val.delivered

\* whether the command of handle_ask call `id` is in the command queue
InQueue(id) == \E i \in 1..Len(command_rx) : command_rx[i].responder = id

\* C14: every Ask command taken from the command queue has had its responder
\* sent on exactly once, by the Reactor in the step that dequeued it (a command
\* not yet taken has had none), and the slot is read at most once, by the
\* handle_ask call that created it.
C14_SlotWrittenOnceReadAtMostOnce ==
    /\ [](\A id \in AskIds :
            Len(responder_sent[id]) =
               (IF ask_pc[id] # "idle" /\ ~InQueue(id) THEN 1 ELSE 0))
    /\ [][\A id \in AskIds :
            responder_sent'[id] # responder_sent[id] =>
               /\ command_rx # <<>> /\ Head(command_rx).responder = id
               /\ command_rx' = Tail(command_rx)]_vars
    /\ [][\A id \in AskIds :
            http_reply'[id] # http_reply[id] =>
               /\ http_reply[id] = None
               /\ ask_pc[id] = "waiting" /\ ask_pc'[id] = "done"
               /\ \/ http_reply'[id].val.status = 408 /\ responder_sent[id] = <<>>
                  \/ http_reply'[id] = Some(HandleAskReply(responder_sent[id][1]))]_vars

\* one call has read the failure the Reactor wrote to its slot; another timed
\* out, and the Reactor then wrote to its slot, which nobody reads
C14_Witness ==
    /\ ask_pc[1] = "done" /\ http_reply[1].val.status = 500
    /\ Len(responder_sent[1]) = 1
    /\ ask_pc[2] = "done" /\ http_reply[2].val.status = 408
    /\ Len(responder_sent[2]) = 1

\* C15: every handle_ask call that has enqueued its command eventually returns
\* (it is never waiting for ever, and leaves the wait only by returning),
\* and returns one result that never changes afterwards: what the Reactor sent
\* on its channel or, when nothing had been sent when the wait ended, the
\* timeout failure; a command is enqueued only by a call that had not yet
\* enqueued one; a send by the Reactor after the call returned changes nothing
\* for the caller and leaves the Reactor awaiting events, able to take the next
\* command.
C15_AskReturnsExactlyOnce ==
    /\ \A id \in AskIds : []<>(ask_pc[id] # "waiting")
    /\ [](\A id \in AskIds :
            /\ (ask_pc[id] = "done") <=> (http_reply[id] # None)
            /\ http_reply[id] # None =>
                  \/ http_reply[id] = Some([status |-> 408, error |-> "Request timeout"])
                  \/ /\ responder_sent[id] # <<>>
                     /\ http_reply[id] = Some(HandleAskReply(responder_sent[id][1])))
    /\ [][\A id \in AskIds :
            /\ ask_pc[id] = "waiting" => ask_pc'[id] \in {"waiting", "done"}
            /\ ask_pc[id] = "done" =>
                  ask_pc'[id] = "done" /\ http_reply'[id] = http_reply[id]
            /\ (ask_pc[id] = "done" /\ responder_sent'[id] # responder_sent[id]) =>
                  leader_pc' = "select"]_vars
    /\ [][Len(command_rx') > Len(command_rx) =>
            ask_pc[command_rx'[Len(command_rx')].responder] = "idle"]_vars
    /\ [][(leader_pc = "select" /\ command_rx # <<>>)' => (ENABLED HttpCommand)']_vars

\* a call timed out, the Reactor then sent on its channel, and the Reactor went
\* on to answer the next call
C15_Witness ==
    /\ http_reply[1] = Some([status |-> 408, error |-> "Request timeout"])
    /\ responder_sent[1] # <<>>
    /\ http_reply[2] # None /\ http_reply[2].val.status = 500
    /\ leader_pc = "select"

\* C16: the command queue never holds more than 32 commands; while it is full
\* no send completes, and a send can complete again once the Reactor has
\* dequeued; commands leave only from the head, one per recv; no command is
\* lost or duplicated: the queue holds each call's command at most once, in
\* the order sent, and a call that has enqueued either still has its command
\* in the queue or has had it taken and answered exactly once.
C16_CommandQueueBounded ==
    /\ [](Len(command_rx) <= 32)
    /\ [](\A i, j \in 1..Len(command_rx) :
            i < j => command_rx[i].responder < command_rx[j].responder)
    /\ [](\A id \in DOMAIN ask_pc :
            /\ Len(responder_sent[id]) <= 1
            /\ ask_pc[id] = "idle" => ~InQueue(id) /\ responder_sent[id] = <<>>
            /\ ask_pc[id] # "idle" => (InQueue(id) <=> responder_sent[id] = <<>>))
    /\ [][Len(command_rx) = 32 => Len(command_rx') <= 32 /\ ask_pc' = ask_pc]_vars
    /\ [][Len(command_rx') < Len(command_rx) =>
            /\ command_rx' = Tail(command_rx)
            /\ Len(responder_sent'[Head(command_rx).responder]) = 1]_vars
    /\ [][(Len(command_rx) < 32 /\ \E id \in DOMAIN ask_pc : ask_pc[id] = "idle")' =>
            (ENABLED (\E id \in DOMAIN ask_pc, p \in Prompts : HandleAskSend(id, p)))']_vars

\* the queue is full again after the Reactor had dequeued, and a further
\* handle_ask call has not been able to send
C16_Witness ==
    /\ Len(command_rx) = 32
    /\ responder_sent[1] # <<>>
    /\ \E id \in DOMAIN ask_pc : ask_pc[id] = "idle"

\* C20 as stated: whatever peers are known, every Ask command taken off the
\* queue is answered with the failure "peer tracking not implemented", no
\* request is dispatched and no entry is added to the pending-request map.
C20_FailsNotImplemented ==
    [][CommandTaken =>
         /\ responder_sent'[Head(command_rx).responder] =
              <<Err("peer tracking not implemented")>>
         /\ outbound' = outbound
         /\ pending_requests' = pending_requests]_vars

\* C20 (amended): whatever peers are known, every Ask command taken off the
\* queue is answered with a failure whose reason is the Web UI text; no request
\* is ever dispatched, the pending-request map stays empty, and no slot ever
\* holds anything but that failure.
C20_FailsUnconditionally ==
    /\ [][CommandTaken =>
            /\ responder_sent'[Head(command_rx).responder] =
                 <<Err("Web UI mode currently requires P2P peers. Use 'ask' mode from another node.")>>
            /\ outbound' = outbound
            /\ pending_requests' = pending_requests]_vars
    /\ [](/\ outbound = <<>> /\ pending_requests = EmptyMap
          /\ \A id \in AskIds : \A i \in 1..Len(responder_sent[id]) :
                responder_sent[id][i].tag = "Err")

\* every peer is known, and every command has been answered with a failure,
\* nothing dispatched and nothing pending
C20_Witness ==
    /\ mode = "web" /\ mdns_discovered = Peers
    /\ \A id \in AskIds : Len(responder_sent[id]) = 1 /\ responder_sent[id][1].tag = "Err"
    /\ outbound = <<>> /\ pending_requests = EmptyMap

\* the length the first four bytes of a byte string declare
DeclaredLength(bytes) == from_be_bytes(FirstBytes(bytes, 4))

\* the reader got every byte of a stream the writer closed
StreamComplete == codec_pc = "closed" /\ received = Some(wire)

\* C17: write_request then read_request, and write_response then
\* read_response, return the message written, for every message.
C17_FrameRoundTrip ==
    (StreamComplete /\ codec_read # None) => codec_read = Some(Ok(codec_msg.val.msg))

\* C19: the writer emits the prefix, then the payload, then closes, and the
\* u32 the prefix holds is the number of payload bytes after it, also for a
\* payload of 2^32 bytes or more.
C19_PrefixEqualsPayloadLength ==
    /\ codec_pc = "write_prefix" => wire = <<>>
    /\ codec_pc = "write_payload" => ByteLen(wire) = Four
    /\ codec_pc \in {"close", "closed"} =>
          LET frame == read_exact(wire, Four) IN
             /\ frame.ok /\ frame.rest = CodecData
             /\ DeclaredLength(wire) = ByteLen(frame.rest)

\* the stream ended inside the length prefix, or before as many payload bytes
\* as the prefix declares had arrived
Truncated(bytes) ==
    \/ BigLess(ByteLen(bytes), Four)
    \/ BigLess(BigSub(ByteLen(bytes), Four), DeclaredLength(bytes))

C21_ResultIsTranslationOfResponse ==
    \A i \in 1..Len(translated) :
        LET response == translated[i].response
            result == translated[i].result
        IN /\ response.success => result = Ok(response.response)
           /\ ~response.success /\ response.error # None
                => result = Err(response.error.val)
           /\ ~response.success /\ response.error = None
                => result.tag = "Err" /\ result.val # ""
           /\ ~response.success => result.tag # "Ok"

\* a success that carries an error has been translated, and so has a failure
\* that carries none
C21_Witness ==
    /\ \E i \in 1..Len(translated) :
          /\ translated[i].response.success
          /\ translated[i].response.error # None
          /\ translated[i].result.tag = "Ok"
    /\ \E i \in 1..Len(translated) :
          /\ ~translated[i].response.success
          /\ translated[i].response.error = None
          /\ translated[i].result = Err("Unknown error")

\* C22: the Leader serves inbound requests one at a time. While a generate call
\* is in flight the loop takes no other event: the swarm's state, the request
\* being served, the counts of requests and replies, the pending map and the
\* responders' logs stay as they are and no command leaves the queue, until the
\* call returns and its response is handed to send_response; and the backend is
\* invoked for the next request only after the reply to the one before was made
C22_ServesOneAtATime ==
    [][/\ leader_pc = "generating" /\ leader_pc' = "generating"
            => /\ UNCHANGED <<swarmVars, leaderVars, pending_requests, response_dropped,
                             responder_sent>>
               /\ Len(command_rx') >= Len(command_rx)
               /\ SubSeq(command_rx', 1, Len(command_rx)) = command_rx
       /\ leader_pc = "generating" /\ leader_pc' # "generating"
            => /\ n_replies' = n_replies + 1
               /\ n_replies' = n_requests
               /\ last_reply'.val.channel = cur_request.val.channel
               /\ UNCHANGED <<swarmVars, n_requests, ollama_call, reactorHttpVars>>
       /\ n_requests' # n_requests
            => /\ leader_pc = "select"
               /\ n_replies = n_requests
               /\ n_requests' = n_requests + 1
               /\ ollama_call' # None
       /\ ollama_call' # ollama_call => n_requests' = n_requests + 1
      ]_vars

\* the second request's generate call is in flight, the first was answered, and
\* an external command waits in the queue
C22_Witness ==
    /\ mode = "web"
    /\ leader_pc = "generating"
    /\ n_requests = 2
    /\ n_replies = 1
    /\ command_rx # <<>>

\* C23: run_subordinate returns only from its Response and OutboundFailure arms,
\* and so only after its request was dispatched: it has not returned while no
\* request was sent, for as long as no peer has been discovered it keeps
\* running with nothing sent, and an inbound Request or any other swarm event
\* neither makes it return nor changes pending_request
C23_TerminatesOnlyOnResponseOrFailure ==
    /\ [](sub_exit # Running
            => /\ pending_request # None
               /\ outbound # <<>>
               /\ sub_event.kind \in {"Response", "OutboundFailure"})
    /\ [](~mdns_ever
            => /\ sub_exit = Running
               /\ pending_request = None
               /\ outbound = <<>>)
    /\ [][/\ sub_exit' # sub_exit
               => /\ sub_exit = Running
                  /\ pending_request # None
                  /\ sub_event'.kind \in {"Response", "OutboundFailure"}
          /\ sub_event'.kind \in SubOtherEvents \cup {"NewListenAddr"}
               => UNCHANGED <<sub_exit, pending_request, outbound, discovered_leaders>>
         ]_vars

\* an inbound Request reached the Subordinate before any peer was discovered:
\* it is still running, with nothing dispatched
C23_Witness ==
    /\ mode = "ask"
    /\ sub_event.kind = "InboundRequest"
    /\ ~mdns_ever
    /\ pending_request = None
    /\ sub_exit = Running

\* C24: in HTTP mode the end of the HTTP server task does not stop the loop of
\* run_leader_with_http: the loop is always either awaiting an event or inside a
\* generate call, never returned; once the task has ended, an inbound request
\* can still be taken whenever the loop awaits an event, the generate call of a
\* request taken can still return, and its return makes exactly one reply, on the
\* channel of that request
C24_ServerExitDoesNotStopReactor ==
    /\ [](leader_pc \in {"select", "generating"})
    /\ [](http_server.state = "exited" /\ leader_pc = "select" /\ n_requests < MaxServed
            => \A request \in InboundRequests : ENABLED HttpRequest(request))
    /\ [](http_server.state = "exited" /\ leader_pc = "generating"
            => \A result \in BackendResults, delivered \in BOOLEAN :
                  ENABLED HttpGenerated(result, delivered))
    /\ [][http_server.state = "exited" /\ leader_pc = "generating" /\ leader_pc' = "select"
            => /\ n_replies' = n_replies + 1
               /\ n_replies' = n_requests
               /\ last_reply'.val.channel = cur_request.val.channel
               /\ last_reply'.val.response = HttpLeaderResponse(ollama_result'.val)
         ]_vars

\* the server task ended before any request was taken and with the command
\* queue closed and empty; two requests were then taken and answered
C24_Witness ==
    /\ mode = "web"
    /\ http_server = [state |-> "exited", taken |-> 0]
    /\ Closed /\ command_rx = <<>>
    /\ n_replies = 2
    /\ leader_pc = "select"

===========================================================================
